---- MODULE Spec2Model ----
(***************************************************************************)
(* The showtime ingestion / deduplication engine of amc-showtime-monitor:  *)
(* the SQLite store (src/src/database.ts), the catalog client              *)
(* (src/src/amc-api.ts), the notification batcher (src/src/telegram.ts)    *)
(* and the run orchestrator (src/src/monitor.ts).                          *)
(*                                                                         *)
(* Time is an integer clock `now`; a UTC start-time string is modelled by  *)
(* the instant it parses to.  The store belongs to one configured theatre. *)
(*                                                                         *)
(* Three specifications share the variables: SpecStore (direct calls of    *)
(* the store's showtime operations), Spec (invocations of the monitor one  *)
(* after the other, the catalog and the clock changing in between) and     *)
(* SpecRun (one invocation, from the states an invocation can start in).   *)
(***************************************************************************)
EXTENDS Integers, Sequences, FiniteSets, TLC

\* ------------------------------------------------------------------ bounds
MaxTime == 2     \* the clock runs 0..MaxTime; start times are 1..MaxTime
MaxShows == 2    \* showtime records in the whole catalog
MaxRows == 2     \* rows of the showtimes table
MaxRuns == 2     \* invocations of checkForNewShowtimes
MaxAttrs == 2    \* attributes of one showtime record
MaxUpdates == 3  \* messages sent to the bot

\* ------------------------------------------------------- program constants
\* SQL NULL in the nullable INTEGER column `auditorium`
NULL == 0
\* the id of the configured theatre (this.theatre.id)
TheatreId == 1
\* filterRelevantMovies keeps results with score < 0.4 (per mille here)
ScoreThreshold == 400

\* ------------------------------------------------------ the configuration
\* a field that is not there (undefined)
Missing == "<undefined>"

\* the required fields: theatre, telegram.botToken, telegram.chatId, amcApiKey
ConfigFields == {"theatre", "botToken", "chatId", "amcApiKey"}

\* a || b of JavaScript on strings: b when a is undefined or empty
OrElse(a, b) == IF a = Missing \/ a = "" THEN b ELSE a

\* envConfig: each field from the environment, else from the file; a file
\* that does not exist leaves rawConfig empty
envConfigOf(cfg) ==
    [f \in ConfigFields |->
        OrElse(cfg.env[f], IF cfg.exists THEN cfg.file[f] ELSE Missing)]

\* a schema of plain strings, without the minimum length
ConfigSchemaAnyString(c) == \A f \in ConfigFields : c[f] # Missing

\* ConfigSchema.parse: every field a string of length at least 1
ConfigSchema(c) == \A f \in ConfigFields : c[f] # Missing /\ c[f] # ""

\* the monitor command up to `new ShowtimeMonitor`: the config file must
\* exist, and loadConfig throws unless the schema accepts envConfig
loadConfig(cfg) ==
    [ok |-> cfg.exists /\ ConfigSchema(envConfigOf(cfg)),
     config |-> envConfigOf(cfg)]

\* the configurations: a file, or none, and the environment
Configs ==
    [exists : BOOLEAN,
     file : [ConfigFields -> {Missing, "", "x"}],
     env : [ConfigFields -> {Missing, "", "e"}]]

\* the name and the slug the catalog gives the theatre
TheatreName == "AMC Metreon 16"

TheatreSlug == "amc-metreon-16"

\* a complete config file, with the full name of the theatre, and an empty
\* environment
DefaultConfig ==
    [exists |-> TRUE,
     file |-> [f \in ConfigFields |->
                 IF f = "theatre" THEN TheatreName ELSE "x"],
     env |-> [f \in ConfigFields |-> Missing]]

\* ------------------------------------------------------------ the catalog
\* AMC movie ids of the catalog
AmcMovieIds == {1, 2}

\* the movies a list given to the title matcher can hold
MatchIds == {1, 2, 3}

AmcMovieName(m) ==
    CASE m = 1 -> "Tron: Ares"
      [] m = 2 -> "Tron: Ares Special Edition"
      [] OTHER -> "Minions"

AmcMovieSlug(m) == IF m = 1 THEN "tron-ares" ELSE "tron-ares-special-edition"

\* the view endpoint that lists each movie (getAllMovies reads three views)
Endpoints == <<"advance", "now-playing", "coming-soon">>

EndpointOf(m) == IF m = 1 THEN "advance" ELSE "now-playing"

\* names a user can put on the watchlist
Terms == {"Tron: Ares", "Ares Special", "Minions"}

Auditoriums == {NULL, 1}

\* the auditorium values the catalog reports for the showtimes of a movie
AuditoriumsOf(m) == IF m = 1 THEN Auditoriums ELSE {1}

StartTimes == 1 .. MaxTime

\* the attributes (code, name) a catalog showtime can carry
AttributeSet ==
    {[code |-> "IMAX", name |-> "IMAX"],
     [code |-> "dolbycinemaatamcprime", name |-> "Dolby Cinema"],
     [code |-> "REALD3D", name |-> "RealD 3D"],
     [code |-> "LUXURYLOUNGER", name |-> "Luxury Loungers"],
     [code |-> "RECLINERSEATING", name |-> "Recliners"],
     [code |-> "PLF", name |-> "Premium Large Format"],
     [code |-> "DBOX", name |-> ""]}

\* the attributes the catalog reports for a showtime: the premium
\* auditorium is the IMAX one
AttributesOf(s) ==
    IF s.auditorium = 1 THEN <<[code |-> "IMAX", name |-> "IMAX"]>> ELSE <<>>

\* the id the catalog gives a showtime of movie m: every showtime its own
ShowtimeId(m, s) ==
    (m * (MaxTime + 1) + s.showDateTimeUtc) * 2 + s.auditorium

\* one showtime of the catalog response for movie m (AMCShowtime)
CatalogShowtimes(m) ==
    [showDateTimeUtc : StartTimes, auditorium : AuditoriumsOf(m),
     isSoldOut : {FALSE}]

\* HTTP outcomes of one catalog call: ok, not found, rate limited,
\* unauthorized, forbidden, any other failure
ApiStatuses == {200, 404, 429, 401, 403, 500}

\* the statuses the response interceptor turns into its own errors
AuthOrRateStatuses == {429, 401, 403}

\* Fuse.js score (per mille) of a catalog movie name for a search term
\* an exact match scores lowest, the same words inside a longer name a
\* little more (the field-length norm), a term four edits away from a name
\* of its ten letters 0.4, a name unlike the term and the empty term 1
FuseScore(term, m) ==
    CASE term \in {"Tron: Ares", "tron: ares", "TRON: ARES"}
           -> (CASE m = 1 -> 0 [] m = 2 -> 1 [] OTHER -> 1000)
      [] term = "Ares Special"
           -> (CASE m = 1 -> 670 [] m = 2 -> 245 [] OTHER -> 1000)
      [] term = "Minions" -> (IF m = 3 THEN 0 ELSE 1000)
      [] term = "Minionsxyz" -> (IF m = 3 THEN 300 ELSE 1000)
      [] term = "Minionwxyz" -> (IF m = 3 THEN 400 ELSE 1000)
      [] OTHER -> 1000

\* the watchlists a store can hold when an invocation starts: the names
\* added so far, in added_at order
InitialWatchlists ==
    {<<>>, <<"Minions">>, <<"Minions", "Tron: Ares", "Ares Special">>}

\* the catalog answers with the showtimes of a movie latest first
LatestFirst(list) ==
    \A i \in 1 .. Len(list) - 1 :
        2 * list[i].showDateTimeUtc + list[i].auditorium
          >= 2 * list[i + 1].showDateTimeUtc + list[i + 1].auditorium

VARIABLES
    showtimes,        \* table showtimes: sequence of rows, row id = position
    movies,           \* table movies: sequence of slugs, local id = position
    watchlist,        \* table watchlist, in added_at order
    catalog,          \* the external catalog: AMC movie id -> showtime list
    now,              \* the wall clock
    pc,               \* position of the invocation
    moviesToCheck,    \* checkForNewShowtimes: the watchlist read at the start
    allMovies,        \* checkForNewShowtimes: the snapshot of getAllMovies
    idx,              \* checkForNewShowtimes: index of the watchlist entry
    relevant,         \* the matched movies of the entry still to process
    newNotifications, \* checkForNewShowtimes: notifications collected
    runNo,            \* history: number of runs started
    errorInRun,       \* history: some call of this run failed
    authFail,         \* history: a catalog call of this run got 429/401/403
    notFound,         \* history: a showtimes call of this run got 404
    sent,             \* history: messages sent in this run
    collected,        \* history: the notifications handed to the batcher
    nRowsAtStart,     \* history: number of showtime rows at run start
    prevClean,        \* history: last run had no error, no change since
    batched,          \* history: keys of notifications batched so far
    failedBatch,      \* history: keys of notifications whose send failed
    lastUpdated,      \* history: the row the last store call updated (0: none)
    theatres,         \* table theatres: the rows (id, name, slug)
    botState,         \* table bot_state: key -> value (NULL: no row)
    inbox,            \* the messages sent to the bot; update id = position
    phase,            \* position of the CLI invocation around the check
    theatre,          \* ShowtimeMonitor.theatre (NULL: not set)
    commands,         \* processTelegramCommands: the commands still to handle
    replies,          \* history: the replies sent in this invocation
    executed,         \* history: update id -> times its command was handled
    config,           \* the config file and the environment of the CLI
    called,           \* history: the network calls initialize made
    upserts           \* overlapping invocations: their upsertShowtime calls

vars == <<showtimes, movies, watchlist, catalog, now, pc, moviesToCheck,
          allMovies, idx, relevant, newNotifications, runNo, errorInRun,
          authFail, notFound, sent, collected, nRowsAtStart, prevClean,
          batched, failedBatch, lastUpdated, theatres, botState, inbox,
          phase, theatre, commands, replies, executed, config, called, upserts>>

storeVars == <<showtimes, movies, watchlist>>

runVars == <<pc, moviesToCheck, allMovies, idx, relevant, newNotifications>>

cliVars == <<theatres, botState, inbox, phase, theatre, commands, replies,
             executed, config, called, upserts>>

histVars == <<runNo, errorInRun, authFail, notFound, sent, collected,
              nRowsAtStart, prevClean, batched, failedBatch>>

\* ------------------------------------------------------------- the store
\* SQL `a = b`: never true when either side is NULL
SqlEq(a, b) == a # NULL /\ b # NULL /\ a = b

\* the WHERE clause of upsertShowtime's SELECT
MatchesKey(row, c) ==
    /\ SqlEq(row.movieId, c.movieId)
    /\ SqlEq(row.theatreId, c.theatreId)
    /\ SqlEq(row.showDateTime, c.showDateTime)
    /\ SqlEq(row.auditorium, c.auditorium)

\* the natural key of a row or candidate, as a value
KeyOf(r) == <<r.movieId, r.theatreId, r.showDateTime, r.auditorium>>

\* an UPDATE that rewrites the whole row, defaults included
UpdateRowWithDefaults(row, c) ==
    [row EXCEPT !.isSoldOut = c.isSoldOut, !.notified = FALSE]

\* upsertShowtime's UPDATE: the mutable columns only
UpdateRow(row, c) == [row EXCEPT !.isSoldOut = c.isSoldOut]

\* upsertShowtime's INSERT: first_seen and notified take their defaults
InsertRow(rows, c, t) ==
    [id |-> Len(rows) + 1, movieId |-> c.movieId, theatreId |-> c.theatreId,
     showDateTime |-> c.showDateTime, auditorium |-> c.auditorium,
     isSoldOut |-> c.isSoldOut, firstSeen |-> t, notified |-> FALSE]

\* upsertShowtime(showtime) -> {id, isNew}, with the table after the call
upsertShowtime(rows, c, t) ==
    LET hits == {i \in 1 .. Len(rows) : MatchesKey(rows[i], c)}
    IN  IF hits # {}
        THEN LET i == CHOOSE j \in hits : \A k \in hits : j <= k
             IN  [rows |-> [rows EXCEPT ![i] = UpdateRow(rows[i], c)],
                  id |-> i, isNew |-> FALSE]
        ELSE [rows |-> Append(rows, InsertRow(rows, c, t)),
              id |-> Len(rows) + 1, isNew |-> TRUE]

\* a markShowtimeNotified whose UPDATE matches no row
markShowtimeNotifiedNoRow(rows, id) == rows

\* markShowtimeNotified(showtimeId)
markShowtimeNotified(rows, id) ==
    [i \in 1 .. Len(rows) |->
        IF rows[i].id = id THEN [rows[i] EXCEPT !.notified = TRUE] ELSE rows[i]]

\* upsertMovie(movie) -> id, keyed on slug, with the table after the call
upsertMovie(ms, slug) ==
    IF \E i \in 1 .. Len(ms) : ms[i] = slug
    THEN [movies |-> ms, id |-> CHOOSE i \in 1 .. Len(ms) : ms[i] = slug]
    ELSE [movies |-> Append(ms, slug), id |-> Len(ms) + 1]

\* the keys of table bot_state
BotStateKeys == {"last_update_id"}

\* a setBotState that keeps the row it finds (INSERT OR IGNORE)
setBotStateKeepRow(state, key, value) ==
    IF state[key] # NULL THEN state ELSE [state EXCEPT ![key] = value]

\* setBotState(key, value): INSERT OR REPLACE
setBotState(state, key, value) == [state EXCEPT ![key] = value]

\* a getBotState that finds no row
getBotStateNoRow(state, key) == NULL

\* getBotState(key): the value of the row, null without a row
getBotState(state, key) == state[key]

\* the movie names the commands carry
WatchNames == {"Tron: Ares", "tron: ares", "TRON: ARES"}

\* the NOCASE collation: a name with its ASCII letters folded
Lower(name) == IF name \in WatchNames THEN "tron: ares" ELSE name

\* addToWatchlist(movieName): INSERT OR IGNORE under UNIQUE(movie_name),
\* which compares the names byte by byte
addToWatchlist(list, movieName) ==
    IF \E i \in DOMAIN list : list[i] = movieName
    THEN [watchlist |-> list, changed |-> FALSE]
    ELSE [watchlist |-> Append(list, movieName), changed |-> TRUE]

\* a removeFromWatchlist that compares the names byte by byte
removeFromWatchlistBinary(list, movieName) ==
    LET rest == SelectSeq(list, LAMBDA n : n # movieName)
    IN  [watchlist |-> rest, changed |-> Len(rest) < Len(list)]

\* removeFromWatchlist(movieName): DELETE ... COLLATE NOCASE
removeFromWatchlist(list, movieName) ==
    LET rest == SelectSeq(list, LAMBDA n : Lower(n) # Lower(movieName))
    IN  [watchlist |-> rest, changed |-> Len(rest) < Len(list)]

\* isInWatchlist(movieName): SELECT 1 ... COLLATE NOCASE
isInWatchlist(list, movieName) ==
    \E i \in DOMAIN list : Lower(list[i]) = Lower(movieName)

\* the theatre as the catalog returns it
AmcTheatre == [id |-> TheatreId, name |-> TheatreName, slug |-> TheatreSlug]

\* name LIKE '%input%': the input is part of the name, letter case ignored
Like(name, input) ==
    IF name = TheatreName
    THEN input \in {"AMC Metreon 16", "amc metreon"}
    ELSE name = input

\* getTheatreByName(name): SELECT * FROM theatres WHERE name LIKE '%name%';
\* the id of the row found, NULL without one
getTheatreByName(table, name) ==
    LET hits == {r \in table : Like(r.name, name)}
    IN  IF hits = {} THEN NULL ELSE (CHOOSE r \in hits : TRUE).id

\* an upsertTheatre whose conflict target is the slug
upsertTheatreOnSlug(table, t) ==
    LET same == {r \in table : r.slug = t.slug}
        others == table \ same
    IN  IF \E r \in others : r.name = t.name \/ r.id = t.id
        THEN [table |-> table, threw |-> TRUE]
        ELSE [table |-> others \cup {t}, threw |-> FALSE]

\* upsertTheatre(theatre): INSERT ... ON CONFLICT(id) DO UPDATE; a name or
\* a slug that another row holds violates its UNIQUE constraint
upsertTheatre(table, t) ==
    LET same == {r \in table : r.id = t.id}
        others == table \ same
    IN  IF \E r \in others : r.name = t.name \/ r.slug = t.slug
        THEN [table |-> table, threw |-> TRUE]
        ELSE [table |-> others \cup {t}, threw |-> FALSE]

\* ---------------------------------------------------- store specification
\* direct calls of the store's showtime operations, in any order

Candidates ==
    [movieId : {1}, theatreId : {TheatreId}, showDateTime : StartTimes,
     auditorium : Auditoriums, isSoldOut : BOOLEAN]

\* the processes that share the database file
Procs == {1, 2}

\* overlapping invocations: no call of upsertShowtime under way
NoUpserts ==
    [p \in Procs |-> [stage |-> "idle", c |-> NULL, existing |-> 0,
                      isNew |-> FALSE]]

\* no invocation under way, nothing observed yet
InitProgram ==
    /\ pc = "idle"
    /\ moviesToCheck = <<>>
    /\ allMovies = <<>>
    /\ idx = 0
    /\ relevant = <<>>
    /\ newNotifications = <<>>
    /\ runNo = 0
    /\ errorInRun = FALSE
    /\ authFail = FALSE
    /\ notFound = FALSE
    /\ sent = <<>>
    /\ collected = <<>>
    /\ nRowsAtStart = 0
    /\ prevClean = FALSE
    /\ batched = {}
    /\ failedBatch = {}
    /\ lastUpdated = 0
    /\ theatres = {}
    /\ botState = [k \in BotStateKeys |-> NULL]
    /\ inbox = <<>>
    /\ phase = "off"
    /\ theatre = NULL
    /\ commands = <<>>
    /\ replies = <<>>
    /\ executed = [i \in 1 .. MaxUpdates |-> 0]
    /\ called = {}
    /\ upserts = NoUpserts

\* the same, with a complete configuration
InitCommon ==
    /\ InitProgram
    /\ config = DefaultConfig

\* a store without rows, opened at any reading of the clock
InitStore ==
    /\ InitCommon
    /\ showtimes = <<>>
    /\ movies = <<>>
    /\ watchlist = <<>>
    /\ catalog = [m \in AmcMovieIds |-> <<>>]
    /\ now \in 0 .. MaxTime

\* one call of upsertShowtime; lastUpdated keeps the row its UPDATE wrote
StoreUpsert(c) ==
    LET r == upsertShowtime(showtimes, c, now)
    IN  /\ Len(r.rows) <= MaxRows
        /\ showtimes' = r.rows
        /\ lastUpdated' = IF r.isNew THEN 0 ELSE r.id
        /\ UNCHANGED <<movies, watchlist, catalog, now, runVars, histVars,
                       cliVars>>

\* one call of markShowtimeNotified
StoreMark(id) ==
    /\ id \in 1 .. Len(showtimes)
    /\ showtimes' = markShowtimeNotified(showtimes, id)
    /\ lastUpdated' = 0
    /\ UNCHANGED <<movies, watchlist, catalog, now, runVars, histVars>>
    /\ UNCHANGED cliVars

NextStore ==
    \/ \E c \in Candidates : StoreUpsert(c)
    \/ \E id \in 1 .. MaxRows : StoreMark(id)

SpecStore == InitStore /\ [][NextStore]_vars

\* ------------------------------------------------ overlapping invocations
\* two invocations (processes) on one database file, each in one call of
\* upsertShowtime: the SELECT and the UPDATE or INSERT are two statements
\* without a transaction around them, so statements of the two calls
\* interleave

\* UNIQUE(movie_id, theatre_id, show_date_time, auditorium): a row
\* conflicts when every column is equal, and NULL is equal to nothing
ViolatesUnique(rows, c) == \E i \in 1 .. Len(rows) : MatchesKey(rows[i], c)

\* the SELECT of upsertShowtime in process p, for the showtime c
UpsertSelect(p, c) ==
    /\ upserts[p].stage = "idle"
    /\ LET hits == {i \in 1 .. Len(showtimes) : MatchesKey(showtimes[i], c)}
       IN  upserts' = [upserts EXCEPT ![p] =
              [stage |-> "selected", c |-> c,
               existing |-> IF hits = {} THEN 0
                            ELSE CHOOSE j \in hits : \A k \in hits : j <= k,
               isNew |-> FALSE]]
    /\ UNCHANGED <<storeVars, catalog, now, runVars, histVars, lastUpdated,
                   theatres, botState, inbox, phase, theatre, commands,
                   replies, executed, config, called>>

\* the second statement of upsertShowtime in process p: the UPDATE of the
\* row the SELECT found, or the INSERT, which throws on a UNIQUE conflict
UpsertWrite(p) ==
    /\ upserts[p].stage = "selected"
    /\ LET u == upserts[p]
       IN  IF u.existing # 0
           THEN /\ showtimes' = [showtimes EXCEPT ![u.existing] =
                                    UpdateRow(showtimes[u.existing], u.c)]
                /\ upserts' = [upserts EXCEPT ![p].stage = "returned"]
           ELSE IF ViolatesUnique(showtimes, u.c)
           THEN /\ showtimes' = showtimes
                /\ upserts' = [upserts EXCEPT ![p].stage = "threw"]
           ELSE /\ showtimes' = Append(showtimes, InsertRow(showtimes, u.c, now))
                /\ upserts' = [upserts EXCEPT ![p].stage = "returned",
                                              ![p].existing = Len(showtimes) + 1,
                                              ![p].isNew = TRUE]
    /\ UNCHANGED <<movies, watchlist, catalog, now, runVars, histVars,
                   lastUpdated, theatres, botState, inbox, phase, theatre,
                   commands, replies, executed, config, called>>

\* a store without rows, no call under way
InitOverlap == InitStore

NextOverlap ==
    \/ \E p \in Procs, c \in Candidates : UpsertSelect(p, c)
    \/ \E p \in Procs : UpsertWrite(p)

SpecOverlap == InitOverlap /\ [][NextOverlap]_vars

\* ------------------------------------------------------ the catalog client
\* a filter that keeps the showtime starting right now (showDate >= now)
FutureShowtimesInclusive(list, t) ==
    SelectSeq(list, LAMBDA s : s.showDateTimeUtc >= t)

\* getShowtimesForMovieAtTheatre: the response with the past showtimes
\* filtered out (showDate > now)
FutureShowtimes(list, t) ==
    SelectSeq(list, LAMBDA s : s.showDateTimeUtc > t)

\* getAllMovies: the three views in order, a failed view contributes nothing
\* (fetchMoviesFromEndpoint catches every error and returns [])
getAllMovies(st) ==
    LET ViewMovies(e) ==
            IF st[e] = 200
            THEN SelectSeq(<<1, 2>>, LAMBDA m : EndpointOf(m) = Endpoints[e])
            ELSE <<>>
    IN  ViewMovies(1) \o ViewMovies(2) \o ViewMovies(3)

\* ---------------------------------------------------------- the monitor
\* insert the pair x = <<key, value>> into a sequence of pairs sorted by
\* ascending key, after the pairs of equal key
RECURSIVE InsertSorted(_, _)
InsertSorted(sorted, x) ==
    IF sorted = <<>> THEN <<x>>
    ELSE IF x[1] < Head(sorted)[1]
         THEN <<x>> \o sorted
         ELSE <<Head(sorted)>> \o InsertSorted(Tail(sorted), x)

\* stable ascending sort of <<key, value>> pairs by key
RECURSIVE SortPairs(_)
SortPairs(pairs) ==
    IF pairs = <<>> THEN <<>>
    ELSE InsertSorted(SortPairs(SubSeq(pairs, 1, Len(pairs) - 1)),
                      pairs[Len(pairs)])

\* the values of a sequence of <<key, value>> pairs
Values(pairs) == [i \in 1 .. Len(pairs) |-> pairs[i][2]]

\* a search that returns its results in the order of the list
FuseSearchListOrder(ms, term) ==
    LET scored == [i \in 1 .. Len(ms) |-> <<FuseScore(term, ms[i]), ms[i]>>]
    IN  SelectSeq(scored, LAMBDA x : x[1] <= ScoreThreshold)

\* fuse.search(searchTerm) with threshold 0.4: the <<score, movie>> pairs
\* of the movies that score at most the threshold, best score first
FuseSearch(ms, term) ==
    LET scored == [i \in 1 .. Len(ms) |-> <<FuseScore(term, ms[i]), ms[i]>>]
    IN  SelectSeq(SortPairs(scored), LAMBDA x : x[1] <= ScoreThreshold)

\* a filterRelevantMovies that returns every result of the search
filterRelevantMoviesAllResults(ms, term) == Values(FuseSearch(ms, term))

\* filterRelevantMovies: the results of the search with score < 0.4
filterRelevantMovies(ms, term) ==
    Values(SelectSeq(FuseSearch(ms, term), LAMBDA x : x[1] < ScoreThreshold))

\* the candidate processMovieShowtimes builds from one catalog showtime
CandidateOf(movieId, s) ==
    [movieId |-> movieId, theatreId |-> TheatreId,
     showDateTime |-> s.showDateTimeUtc, auditorium |-> s.auditorium,
     isSoldOut |-> s.isSoldOut]

\* generateTicketUrl(showtime): the seat selection page of the showtime
generateTicketUrl(id) ==
    <<"https://www.amctheatres.com/showtimes/", id, "/seats">>

\* the TelegramMessage pushed for the new showtime s, stored as candidate
\* c; `key` is history only
NotificationOf(m, s, c) ==
    [movieName |-> AmcMovieName(m), showDateTime |-> c.showDateTime,
     auditorium |-> c.auditorium, attributes |-> AttributesOf(s),
     ticketUrl |-> generateTicketUrl(ShowtimeId(m, s)),
     isSoldOut |-> c.isSoldOut, key |-> KeyOf(c)]

\* the store call of one processMovieShowtimes call that throws: the upsert
\* of the showtime at position `at` (0: none)
StoreFailures(n) ==
    {[at |-> 0, op |-> "none"]} \cup [at : 1 .. n, op : {"upsert"}]

\* the for-loop of processMovieShowtimes over the fetched showtimes, from
\* position k; acc holds the notifications and the candidates so far
RECURSIVE ShowtimeLoop(_, _, _, _, _, _, _, _)
ShowtimeLoop(rows, list, k, m, movieId, t, fail, acc) ==
    IF k > Len(list)
    THEN [rows |-> rows, notes |-> acc.notes, cands |-> acc.cands,
          threw |-> FALSE]
    ELSE IF fail.at = k /\ fail.op = "upsert"
    THEN [rows |-> rows, notes |-> <<>>, cands |-> acc.cands, threw |-> TRUE]
    ELSE LET c == CandidateOf(movieId, list[k])
             r == upsertShowtime(rows, c, t)
             cands == acc.cands \cup {KeyOf(c)}
         IN  IF ~r.isNew
             THEN ShowtimeLoop(r.rows, list, k + 1, m, movieId, t, fail,
                               [notes |-> acc.notes, cands |-> cands])
             ELSE ShowtimeLoop(markShowtimeNotified(r.rows, r.id), list, k + 1,
                               m, movieId, t, fail,
                               [notes |-> Append(acc.notes,
                                                 NotificationOf(m, list[k],
                                                                c)),
                                cands |-> cands])

\* a processMovieShowtimes whose client re-throws the 404 answer too
processMovieShowtimesRethrow404(rows, ms, m, status, response, t, fail) ==
    LET um == upsertMovie(ms, AmcMovieSlug(m))
    IN  IF status # 200
        THEN [rows |-> rows, movies |-> um.movies, notes |-> <<>>,
              cands |-> {}, threw |-> TRUE]
        ELSE LET r == ShowtimeLoop(rows, FutureShowtimes(response, t), 1, m,
                                   um.id, t, fail,
                                   [notes |-> <<>>, cands |-> {}])
             IN  [rows |-> r.rows, movies |-> um.movies, notes |-> r.notes,
                  cands |-> r.cands, threw |-> r.threw]

\* processMovieShowtimes(amcMovie): the tables after the call, the
\* notifications it returns, and whether it threw.  A 404 answer is an
\* empty list; any other failed answer is re-thrown by the client.
processMovieShowtimes(rows, ms, m, status, response, t, fail) ==
    LET um == upsertMovie(ms, AmcMovieSlug(m))
    IN  IF status = 404
        THEN [rows |-> rows, movies |-> um.movies, notes |-> <<>>,
              cands |-> {}, threw |-> FALSE]
        ELSE IF status # 200
        THEN [rows |-> rows, movies |-> um.movies, notes |-> <<>>,
              cands |-> {}, threw |-> TRUE]
        ELSE LET r == ShowtimeLoop(rows, FutureShowtimes(response, t), 1, m,
                                   um.id, t, fail,
                                   [notes |-> <<>>, cands |-> {}])
             IN  [rows |-> r.rows, movies |-> um.movies, notes |-> r.notes,
                  cands |-> r.cands, threw |-> r.threw]

\* ------------------------------------------------------------ the batcher
\* a grouping that keeps the title of the first message only
GroupNamesFirstOnly(messages) ==
    IF messages = <<>> THEN <<>> ELSE <<messages[1].movieName>>

\* the title names of the batch in order of first appearance (Map order)
RECURSIVE GroupNames(_)
GroupNames(messages) ==
    IF messages = <<>> THEN <<>>
    ELSE LET init == GroupNames(SubSeq(messages, 1, Len(messages) - 1))
             name == messages[Len(messages)].movieName
         IN  IF \E i \in 1 .. Len(init) : init[i] = name
             THEN init ELSE Append(init, name)

\* local start time of a notification: the theatre's fixed offset keeps
\* the order of the UTC instants
LocalTime(n) == n.showDateTime

\* the priority order of the premium formats, most premium first
premiumFormats ==
    <<"IMAXWITHLASER3D", "IMAXWITHLASERATAMC", "DOLBYCINEMAATAMCPRIME",
      "DOLBYCINEMAATAMC", "IMAX", "DOLBY3D", "LASERATAMC", "REALD3D", "DBOX",
      "DOLBYATMOS">>

\* code.toUpperCase() on the codes of AttributeSet
ToUpperCase(code) ==
    IF code = "dolbycinemaatamcprime" THEN "DOLBYCINEMAATAMCPRIME" ELSE code

\* str.includes(part) on the codes and names of AttributeSet
Includes(str, part) ==
    <<str, part>> \in {<<"REALD3D", "3D">>, <<"LUXURYLOUNGER", "LUXURY">>,
                       <<"Premium Large Format", "Premium">>}

\* the filter of the other notable premium attributes
IsOtherFormat(attr) ==
    \/ Includes(attr.code, "PREMIUM")
    \/ Includes(attr.code, "LUXURY")
    \/ Includes(attr.code, "3D")
    \/ Includes(attr.name, "Premium")

\* a getFormatString that takes the first attribute, in the order of the
\* record, whose code is a premium format
getFormatStringInRecordOrder(attributes) ==
    LET hits == SelectSeq(attributes,
                          LAMBDA a : \E f \in DOMAIN premiumFormats :
                                        ToUpperCase(a.code) = premiumFormats[f])
        other == SelectSeq(attributes, IsOtherFormat)
    IN  IF hits # <<>> THEN hits[1].name
        ELSE IF other # <<>> THEN other[1].name
        ELSE ""

\* getFormatString(attributes): the name of the attribute of the first
\* premium format found in priority order, else of the first other notable
\* attribute, else the empty string
getFormatString(attributes) ==
    LET found(f) == SelectSeq(attributes, LAMBDA a : ToUpperCase(a.code) = f)
        hits == SelectSeq(premiumFormats, LAMBDA f : found(f) # <<>>)
        other == SelectSeq(attributes, IsOtherFormat)
    IN  IF hits # <<>> THEN found(hits[1])[1].name
        ELSE IF other # <<>> THEN other[1].name
        ELSE ""

\* `Aud ${msg.auditorium}`
AudText(auditorium) == IF auditorium = NULL THEN "Aud null" ELSE "Aud 1"

\* one line of the showtime list of a message: start time and format
ShowtimeLine(msg) ==
    LET formatStr == getFormatString(msg.attributes)
    IN  [time |-> LocalTime(msg),
         format |-> IF formatStr # "" THEN formatStr
                    ELSE AudText(msg.auditorium)]

\* a formatBatchMessage that keeps the messages in the order collected
formatBatchMessageUnsorted(name, messages) ==
    LET group == SelectSeq(messages, LAMBDA n : n.movieName = name)
    IN  [movieName |-> name,
         lines |-> group,
         showtimeList |-> [i \in 1 .. Len(group) |-> ShowtimeLine(group[i])],
         ticketLinks |-> <<group[1].ticketUrl>>]

\* formatBatchMessage: one message; its lines sorted by local start time,
\* and the ticket link of the first of the sorted messages
formatBatchMessage(name, messages) ==
    LET group == SelectSeq(messages, LAMBDA n : n.movieName = name)
        sortedMessages == Values(SortPairs([i \in 1 .. Len(group) |->
                                             <<LocalTime(group[i]), group[i]>>]))
    IN  [movieName |-> name,
         lines |-> sortedMessages,
         showtimeList |-> [i \in 1 .. Len(sortedMessages) |->
                             ShowtimeLine(sortedMessages[i])],
         ticketLinks |-> <<sortedMessages[1].ticketUrl>>]

\* a sendBatchNotification that logs a failed send and goes on with the
\* next title group
sendBatchNotificationContinue(messages, failAt) ==
    LET names == GroupNames(messages)
        rest == SelectSeq([g \in 1 .. Len(names) |-> g], LAMBDA g : g # failAt)
    IN  [sent |-> [k \in 1 .. Len(rest) |->
                     formatBatchMessage(names[rest[k]], messages)],
         threw |-> failAt # 0,
         failed |-> IF failAt = 0 THEN {}
                    ELSE {messages[i].key : i \in
                            {j \in 1 .. Len(messages) :
                                messages[j].movieName = names[failAt]}}]

\* sendBatchNotification: one send per title group; the send of group
\* failAt fails (0: none) and the error is re-thrown
sendBatchNotification(messages, failAt) ==
    LET names == GroupNames(messages)
        upto == IF failAt = 0 THEN Len(names) ELSE failAt - 1
    IN  [sent |-> [g \in 1 .. upto |-> formatBatchMessage(names[g], messages)],
         threw |-> failAt # 0,
         failed |-> IF failAt = 0 THEN {}
                    ELSE {messages[i].key : i \in
                            {j \in 1 .. Len(messages) :
                                messages[j].movieName = names[failAt]}}]

\* ------------------------------------------------- monitor specification
Init ==
    /\ InitCommon
    /\ showtimes = <<>>
    /\ movies = <<>>
    /\ watchlist \in InitialWatchlists
    /\ catalog = [m \in AmcMovieIds |-> <<>>]
    /\ now = 0

CatalogSize == Len(catalog[1]) + Len(catalog[2])

\* the theatre publishes a showtime, between two invocations
CatalogPublish(m, s) ==
    /\ pc = "idle"
    /\ runNo < MaxRuns
    /\ CatalogSize < MaxShows
    /\ LatestFirst(Append(catalog[m], s))
    /\ catalog' = [catalog EXCEPT ![m] = Append(@, s)]
    /\ prevClean' = FALSE
    /\ UNCHANGED <<storeVars, now, runVars, runNo, errorInRun, authFail, notFound,
                   sent, collected, nRowsAtStart, batched, failedBatch, lastUpdated>>
    /\ UNCHANGED cliVars

\* the clock advances between two invocations
Tock ==
    /\ pc = "idle"
    /\ runNo < MaxRuns
    /\ now < MaxTime
    /\ now' = now + 1
    /\ UNCHANGED <<storeVars, catalog, runVars, histVars, lastUpdated>>
    /\ UNCHANGED cliVars

\* checkForNewShowtimes, up to the loop: getWatchlist and getAllMovies;
\* st[e] is the answer to the request for view e
StartRun(st) ==
    /\ pc = "idle"
    /\ runNo < MaxRuns
    /\ pc' = "entry"
    /\ moviesToCheck' = watchlist
    /\ allMovies' = getAllMovies(st)
    /\ idx' = 1
    /\ relevant' = <<>>
    /\ newNotifications' = <<>>
    /\ runNo' = runNo + 1
    /\ errorInRun' = (\E e \in 1 .. 3 : st[e] # 200)
    /\ authFail' = (\E e \in 1 .. 3 : st[e] \in AuthOrRateStatuses)
    /\ notFound' = FALSE
    /\ sent' = <<>>
    /\ collected' = <<>>
    /\ nRowsAtStart' = Len(showtimes)
    /\ UNCHANGED <<storeVars, catalog, now, prevClean, batched, failedBatch,
                   lastUpdated>>
    /\ UNCHANGED cliVars

\* the for-loop over the watchlist is exhausted
LoopExit ==
    /\ pc = "entry"
    /\ idx > Len(moviesToCheck)
    /\ pc' = "send"
    /\ UNCHANGED <<storeVars, catalog, now, moviesToCheck, allMovies, idx,
                   relevant, newNotifications, histVars, lastUpdated>>
    /\ UNCHANGED cliVars

\* a zero-match entry that leaves the loop (break instead of continue)
EntryNoMatchBreak ==
    /\ pc = "entry"
    /\ idx <= Len(moviesToCheck)
    /\ filterRelevantMovies(allMovies, moviesToCheck[idx]) = <<>>
    /\ pc' = "send"
    /\ UNCHANGED <<storeVars, catalog, now, idx, moviesToCheck, allMovies,
                   relevant, newNotifications, histVars, lastUpdated>>
    /\ UNCHANGED cliVars

\* a watchlist entry without relevant movies: warn and continue
EntryNoMatch ==
    /\ pc = "entry"
    /\ idx <= Len(moviesToCheck)
    /\ filterRelevantMovies(allMovies, moviesToCheck[idx]) = <<>>
    /\ idx' = idx + 1
    /\ UNCHANGED <<storeVars, catalog, now, pc, moviesToCheck, allMovies,
                   relevant, newNotifications, histVars, lastUpdated>>
    /\ UNCHANGED cliVars

\* a watchlist entry with relevant movies, matched against a snapshot
\* fetched again for the entry
EntryMatchedRefetch ==
    /\ pc = "entry"
    /\ idx <= Len(moviesToCheck)
    /\ allMovies' = getAllMovies([e \in 1 .. 3 |-> 200])
    /\ filterRelevantMovies(allMovies', moviesToCheck[idx]) # <<>>
    /\ relevant' = filterRelevantMovies(allMovies', moviesToCheck[idx])
    /\ pc' = "movie"
    /\ UNCHANGED <<storeVars, catalog, now, moviesToCheck, idx,
                   newNotifications, histVars, lastUpdated>>
    /\ UNCHANGED cliVars

\* a watchlist entry with relevant movies: enter the inner loop
EntryMatched ==
    /\ pc = "entry"
    /\ idx <= Len(moviesToCheck)
    /\ filterRelevantMovies(allMovies, moviesToCheck[idx]) # <<>>
    /\ relevant' = filterRelevantMovies(allMovies, moviesToCheck[idx])
    /\ pc' = "movie"
    /\ UNCHANGED <<storeVars, catalog, now, moviesToCheck, allMovies, idx,
                   newNotifications, histVars, lastUpdated>>
    /\ UNCHANGED cliVars

\* a catch block that gives the run up: nothing more is processed or sent
OnEntryErrorAbort(i) == [pc |-> "done", idx |-> i]

\* the catch block of the watchlist loop: log, go on with the next entry
OnEntryError(i) == [pc |-> "entry", idx |-> i + 1]

\* the call of processMovieShowtimes that ProcessMovie(status, fail) makes
MovieCall(status, fail) ==
    processMovieShowtimes(showtimes, movies, Head(relevant), status,
                          catalog[Head(relevant)], now, fail)

\* one iteration of the inner loop: processMovieShowtimes for the next
\* relevant movie, its catalog answer `status`, its failing store call
ProcessMovie(status, fail) ==
    /\ pc = "movie"
    /\ status = 404 => catalog[Head(relevant)] = <<>>
    /\ fail \in StoreFailures(
                IF status = 200
                THEN Len(FutureShowtimes(catalog[Head(relevant)], now)) ELSE 0)
    /\ LET r == MovieCall(status, fail)
       IN  /\ Len(r.rows) <= MaxRows
           /\ showtimes' = r.rows
           /\ movies' = r.movies
           /\ authFail' = (authFail \/ status \in AuthOrRateStatuses)
           /\ notFound' = (notFound \/ status = 404)
           /\ errorInRun' = (errorInRun \/ r.threw)
           /\ IF r.threw
              THEN /\ pc' = OnEntryError(idx).pc
                   /\ idx' = OnEntryError(idx).idx
                   /\ relevant' = <<>>
                   /\ newNotifications' = newNotifications
              ELSE /\ newNotifications' = newNotifications \o r.notes
                   /\ relevant' = Tail(relevant)
                   /\ pc' = IF Tail(relevant) = <<>> THEN "entry" ELSE "movie"
                   /\ idx' = IF Tail(relevant) = <<>> THEN idx + 1 ELSE idx
    /\ UNCHANGED <<watchlist, catalog, now, moviesToCheck, allMovies, runNo,
                   sent, collected, nRowsAtStart, prevClean, batched, failedBatch,
                   lastUpdated>>
    /\ UNCHANGED cliVars

\* the end of checkForNewShowtimes: send the collected notifications; the
\* send of title group failAt fails (0: none); the error is caught and logged
Send(failAt) ==
    /\ pc = "send"
    /\ failAt \in 0 .. Len(GroupNames(newNotifications))
    /\ LET r == sendBatchNotification(newNotifications, failAt)
       IN  /\ sent' = r.sent
           /\ errorInRun' = (errorInRun \/ r.threw)
           /\ prevClean' = ~(errorInRun \/ r.threw)
           /\ failedBatch' = failedBatch \cup r.failed
    /\ batched' = batched \cup
                    {newNotifications[i].key : i \in DOMAIN newNotifications}
    /\ pc' = "done"
    /\ collected' = newNotifications
    /\ newNotifications' = <<>>
    /\ UNCHANGED <<storeVars, catalog, now, moviesToCheck, allMovies, idx,
                   relevant, runNo, authFail, notFound, nRowsAtStart,
                   lastUpdated>>
    /\ UNCHANGED cliVars

\* the invocation ends: nothing of it survives but the store
Exit ==
    /\ pc = "done"
    /\ pc' = "idle"
    /\ moviesToCheck' = <<>>
    /\ allMovies' = <<>>
    /\ idx' = 0
    /\ relevant' = <<>>
    /\ newNotifications' = <<>>
    /\ errorInRun' = FALSE
    /\ authFail' = FALSE
    /\ notFound' = FALSE
    /\ sent' = <<>>
    /\ collected' = <<>>
    /\ nRowsAtStart' = 0
    /\ phase' = "off"
    /\ theatre' = NULL
    /\ commands' = <<>>
    /\ replies' = <<>>
    /\ called' = {}
    /\ UNCHANGED <<storeVars, catalog, now, runNo, prevClean, batched,
                   failedBatch, lastUpdated, theatres, botState, inbox,
                   executed, config, upserts>>

Next ==
    \/ Tock
    \/ \E m \in AmcMovieIds : \E s \in CatalogShowtimes(m) : CatalogPublish(m, s)
    \/ \E st \in [1 .. 3 -> ApiStatuses] : StartRun(st)
    \/ LoopExit
    \/ EntryNoMatch
    \/ EntryMatched
    \/ \E status \in ApiStatuses, fail \in StoreFailures(MaxShows) :
          ProcessMovie(status, fail)
    \/ \E failAt \in 0 .. 2 : Send(failAt)
    \/ Exit

Spec == Init /\ [][Next]_vars

\* ------------------------------------------ single-invocation specification
\* one invocation of checkForNewShowtimes, from every catalog, clock reading
\* and watchlist, on a new store or on the store an earlier invocation left

\* the sequences over S of length at most n
SeqsUpTo(S, n) == UNION {[1 .. k -> S] : k \in 0 .. n}

\* the catalogs CatalogPublish can build: at most MaxShows showtimes
Catalogs ==
    {c \in [AmcMovieIds -> SeqsUpTo(CatalogShowtimes(1), MaxShows)] :
        /\ \A m \in AmcMovieIds :
              /\ \A k \in 1 .. Len(c[m]) : c[m][k] \in CatalogShowtimes(m)
              /\ LatestFirst(c[m])
        /\ Len(c[1]) + Len(c[2]) <= MaxShows}

\* the store after an invocation without error at clock reading 0, when the
\* catalog held the first k[m] showtimes of each movie m: the entry
\* "Tron: Ares" matches both movies, best score first
StoreAfter(cat, k) ==
    LET none == [at |-> 0, op |-> "none"]
        first == processMovieShowtimes(<<>>, <<>>, 1, 200,
                                       SubSeq(cat[1], 1, k[1]), 0, none)
    IN  processMovieShowtimes(first.rows, first.movies, 2, 200,
                              SubSeq(cat[2], 1, k[2]), 0, none)

\* the stores an invocation can find: a new one, or, when the watchlist
\* holds a matching entry, the store of an earlier invocation
PriorStores(cat, wl) ==
    {[rows |-> <<>>, movies |-> <<>>]} \cup
    (IF Len(wl) < 2 THEN {}
     ELSE {[rows |-> StoreAfter(cat, k).rows,
            movies |-> StoreAfter(cat, k).movies] :
             k \in {f \in [AmcMovieIds -> 0 .. MaxShows] :
                      \A m \in AmcMovieIds : f[m] <= Len(cat[m])}})

InitRun ==
    /\ InitCommon
    /\ watchlist \in InitialWatchlists
    /\ catalog \in Catalogs
    /\ now \in 0 .. MaxTime
    /\ \E st \in PriorStores(catalog, watchlist) :
          /\ Len(st.rows) <= MaxRows
          /\ showtimes = st.rows
          /\ movies = st.movies

NextRun ==
    \/ \E st \in [1 .. 3 -> ApiStatuses] : runNo = 0 /\ StartRun(st)
    \/ LoopExit
    \/ EntryNoMatch
    \/ EntryMatched
    \/ \E status \in ApiStatuses, fail \in StoreFailures(MaxShows) :
          ProcessMovie(status, fail)
    \/ \E failAt \in 0 .. 2 : Send(failAt)

SpecRun == InitRun /\ [][NextRun]_vars

\* ------------------------------------------------- batcher specification
\* sendBatchNotification applied to the notifications of one run, collected
\* in any order

\* the message of every showtime the catalog can hold
BatchMessages ==
    UNION {{NotificationOf(m, s, CandidateOf(m, s)) : s \in CatalogShowtimes(m)} :
             m \in AmcMovieIds}

\* the batches: at most MaxShows messages in any order, or one message
\* with any list of at most MaxAttrs attributes
Batches ==
    SeqsUpTo(BatchMessages, MaxShows) \cup
    {<<[n EXCEPT !.attributes = a]>> :
        n \in BatchMessages, a \in SeqsUpTo(AttributeSet, MaxAttrs)}

InitBatch ==
    /\ showtimes = <<>>
    /\ movies = <<>>
    /\ watchlist = <<>>
    /\ catalog = [m \in AmcMovieIds |-> <<>>]
    /\ now = 0
    /\ pc = "send"
    /\ moviesToCheck = <<>>
    /\ allMovies = <<>>
    /\ idx = 1
    /\ relevant = <<>>
    /\ newNotifications \in Batches
    /\ runNo = 1
    /\ errorInRun = FALSE
    /\ authFail = FALSE
    /\ notFound = FALSE
    /\ sent = <<>>
    /\ collected = <<>>
    /\ nRowsAtStart = 0
    /\ prevClean = FALSE
    /\ batched = {}
    /\ failedBatch = {}
    /\ lastUpdated = 0
    /\ theatres = {AmcTheatre}
    /\ botState = [k \in BotStateKeys |-> NULL]
    /\ inbox = <<>>
    /\ phase = "check"
    /\ theatre = TheatreId
    /\ commands = <<>>
    /\ replies = <<>>
    /\ executed = [i \in 1 .. MaxUpdates |-> 0]
    /\ config = DefaultConfig
    /\ called = {}
    /\ upserts = NoUpserts

NextBatch == \E failAt \in 0 .. 2 : Send(failAt)

SpecBatch == InitBatch /\ [][NextBatch]_vars

\* ----------------------------------------------------- CLI specification
\* invocations of the `monitor` command in sequence: initialize, process the
\* pending commands, check for new showtimes, close; and `reset-db`

\* the texts sent to the bot
InboundTexts ==
    {"/add Tron: Ares", "/add tron: ares", "/remove TRON: ARES", "/add",
     "/list", "hello"}

\* a text that begins with the command marker
IsCommand(text) == text # "hello"

\* the command of a text: the marker and the first token
CommandOf(text) ==
    CASE text \in {"/add Tron: Ares", "/add tron: ares", "/add"} -> "/add"
      [] text = "/remove TRON: ARES" -> "/remove"
      [] OTHER -> text

\* the argument of a text: what follows the first token
ArgsOf(text) ==
    CASE text = "/add Tron: Ares" -> "Tron: Ares"
      [] text = "/add tron: ares" -> "tron: ares"
      [] text = "/remove TRON: ARES" -> "TRON: ARES"
      [] OTHER -> ""

\* a checkForCommands that clears the cursor when it polled nothing
checkForCommandsClearOnEmpty(box, state) ==
    LET cursor == getBotState(state, "last_update_id")
        ids == {i \in DOMAIN box : i > cursor}
        last == IF ids = {} THEN NULL
                ELSE CHOOSE i \in ids : \A j \in ids : j <= i
    IN  [state |-> setBotState(state, "last_update_id", last),
         commands |-> SelectSeq([i \in DOMAIN box |->
                                   [id |-> i, command |-> CommandOf(box[i]),
                                    args |-> ArgsOf(box[i])]],
                                LAMBDA c : c.id \in ids /\ IsCommand(box[c.id]))]

\* checkForCommands(): poll the messages after the cursor, move the cursor
\* to the id of every message polled, return those that are commands
checkForCommands(box, state) ==
    LET cursor == getBotState(state, "last_update_id")
        ids == {i \in DOMAIN box : i > cursor}
        last == IF ids = {} THEN cursor
                ELSE CHOOSE i \in ids : \A j \in ids : j <= i
    IN  [state |-> setBotState(state, "last_update_id", last),
         commands |-> SelectSeq([i \in DOMAIN box |->
                                   [id |-> i, command |-> CommandOf(box[i]),
                                    args |-> ArgsOf(box[i])]],
                                LAMBDA c : c.id \in ids /\ IsCommand(box[c.id]))]

\* movieName.trim(): the name without the blanks around it
Trim(args) == IF args = " " THEN "" ELSE args

\* handlers that test the argument as it came, blanks included
HandleCommandOfUntrimmed(list, c) ==
    CASE c.command = "/add" ->
           IF c.args = "" THEN [watchlist |-> list, reply |-> "usage"]
           ELSE LET r == addToWatchlist(list, c.args)
                IN  [watchlist |-> r.watchlist,
                     reply |-> IF r.changed THEN "added" ELSE "already"]
      [] c.command = "/remove" ->
           IF c.args = "" THEN [watchlist |-> list, reply |-> "usage"]
           ELSE LET r == removeFromWatchlist(list, c.args)
                IN  [watchlist |-> r.watchlist,
                     reply |-> IF r.changed THEN "removed" ELSE "not found"]
      [] c.command = "/list" -> [watchlist |-> list, reply |-> "list"]
      [] c.command = "/status" -> [watchlist |-> list, reply |-> "status"]
      [] c.command = "/help" -> [watchlist |-> list, reply |-> "help"]
      [] OTHER -> [watchlist |-> list, reply |-> "unknown"]

\* the switch of processTelegramCommands and the handler it selects: the
\* watchlist after the command and the one reply the handler sends
HandleCommandOf(list, c) ==
    CASE c.command = "/add" ->
           IF Trim(c.args) = "" THEN [watchlist |-> list, reply |-> "usage"]
           ELSE LET r == addToWatchlist(list, Trim(c.args))
                IN  [watchlist |-> r.watchlist,
                     reply |-> IF r.changed THEN "added" ELSE "already"]
      [] c.command = "/remove" ->
           IF Trim(c.args) = "" THEN [watchlist |-> list, reply |-> "usage"]
           ELSE LET r == removeFromWatchlist(list, Trim(c.args))
                IN  [watchlist |-> r.watchlist,
                     reply |-> IF r.changed THEN "removed" ELSE "not found"]
      [] c.command = "/list" -> [watchlist |-> list, reply |-> "list"]
      [] c.command = "/status" -> [watchlist |-> list, reply |-> "status"]
      [] c.command = "/help" -> [watchlist |-> list, reply |-> "help"]
      [] OTHER -> [watchlist |-> list, reply |-> "unknown"]

\* a message is sent to the bot while no invocation runs
Receive(text) ==
    /\ phase = "off"
    /\ Len(inbox) < MaxUpdates
    /\ inbox' = Append(inbox, text)
    /\ UNCHANGED <<storeVars, catalog, now, runVars, histVars, lastUpdated,
                   theatres, botState, phase, theatre, commands, replies,
                   executed, config, called, upserts>>

\* an initialize that logs the theatre it did not find and goes on
OnTheatreNotFoundContinue == "poll"

\* initialize() when neither the store nor the catalog knows the theatre:
\* throw new Error('Theatre not found')
OnTheatreNotFound == "failed"

\* an initialize that logs the failed connection test and goes on
OnConnectionFailedContinue == "poll"

\* initialize() when testConnection() returns false:
\* throw new Error('Failed to connect to Telegram bot')
OnConnectionFailed == "failed"

\* a monitor command that runs the check right after initialize()
AfterInitializeCheck == "check"

\* the monitor command after initialize(): processTelegramCommands()
AfterInitialize == "poll"

\* the monitor command up to the end of initialize(): the configuration is
\* loaded; then the theatre comes from the store, else from the catalog, which
\* answers `found` or not; then the connection test, which is `connected`
\* or not.  Either failure throws.
Initialize(found, connected) ==
    /\ phase = "off"
    /\ pc = "idle"
    /\ runNo < MaxRuns
    /\ LET cached == getTheatreByName(theatres, envConfigOf(config).theatre)
       IN  IF ~loadConfig(config).ok
           THEN /\ phase' = "failed"
                /\ called' = {}
                /\ UNCHANGED <<theatres, theatre>>
           ELSE IF cached = NULL /\ ~found
           THEN /\ phase' = OnTheatreNotFound
                /\ called' = {"findTheatreByName"}
                /\ UNCHANGED <<theatres, theatre>>
           ELSE /\ theatres' = IF cached = NULL
                               THEN upsertTheatre(theatres, AmcTheatre).table
                               ELSE theatres
                /\ theatre' = TheatreId
                /\ called' = IF cached = NULL
                             THEN {"findTheatreByName", "testConnection"}
                             ELSE {"testConnection"}
                /\ phase' = IF connected THEN AfterInitialize
                             ELSE OnConnectionFailed
    /\ UNCHANGED <<storeVars, catalog, now, runVars, histVars, lastUpdated,
                   botState, inbox, commands, replies, executed, config, upserts>>

\* the catch of the CLI: the error is printed and the process exits with
\* status 1
ExitFailed ==
    /\ phase = "failed"
    /\ phase' = "off"
    /\ theatre' = NULL
    /\ called' = {}
    /\ UNCHANGED <<storeVars, catalog, now, runVars, histVars, lastUpdated,
                   theatres, botState, inbox, commands, replies, executed,
                   config, upserts>>

\* processTelegramCommands, up to the loop
CheckForCommands ==
    /\ phase = "poll"
    /\ LET r == checkForCommands(inbox, botState)
       IN  /\ botState' = r.state
           /\ commands' = r.commands
           /\ phase' = IF r.commands = <<>> THEN "check" ELSE "commands"
    /\ called' = called \cup {"checkForCommands"}
    /\ UNCHANGED <<storeVars, catalog, now, runVars, histVars, lastUpdated,
                   theatres, inbox, theatre, replies, executed, config, upserts>>

\* a sendResponse that logs a failed send and returns
sendResponseSwallow(log, message, delivered) ==
    [replies |-> IF delivered THEN Append(log, message) ELSE log,
     threw |-> FALSE]

\* sendResponse(text): one message to the chat; a failed send is raised to
\* the caller
sendResponse(log, message, delivered) ==
    [replies |-> IF delivered THEN Append(log, message) ELSE log,
     threw |-> ~delivered]

\* a processTelegramCommands without its catch: the error reaches the CLI
OnCommandErrorRethrow == "failed"

\* the catch of processTelegramCommands: the error is logged and the
\* monitor command goes on with checkForNewShowtimes()
OnCommandError == "check"

\* one iteration of the loop of processTelegramCommands: the handler of the
\* next command and its reply; a reply that fails (~replyOk) throws, which
\* the catch around the loop logs: the rest of the commands is dropped
HandleCommand(replyOk) ==
    /\ phase = "commands"
    /\ LET c == Head(commands)
           r == HandleCommandOf(watchlist, c)
           s == sendResponse(replies, [id |-> c.id, text |-> r.reply], replyOk)
           rest == IF s.threw THEN <<>> ELSE Tail(commands)
       IN  /\ watchlist' = r.watchlist
           /\ executed' = [executed EXCEPT ![c.id] = @ + 1]
           /\ replies' = s.replies
           /\ commands' = rest
           /\ phase' = IF s.threw THEN OnCommandError
                        ELSE IF rest = <<>> THEN "check" ELSE "commands"
    /\ UNCHANGED <<showtimes, movies, catalog, now, runVars, histVars,
                   lastUpdated, theatres, botState, inbox, theatre, config,
                   called, upserts>>

\* the `reset-db` command: the database file is deleted
ResetDb ==
    /\ phase = "off"
    /\ theatres # {}
    /\ showtimes' = <<>>
    /\ movies' = <<>>
    /\ watchlist' = <<>>
    /\ theatres' = {}
    /\ botState' = [k \in BotStateKeys |-> NULL]
    /\ executed' = [i \in 1 .. MaxUpdates |-> 0]
    /\ batched' = {}
    /\ failedBatch' = {}
    /\ prevClean' = FALSE
    /\ lastUpdated' = 0
    /\ UNCHANGED <<catalog, now, runVars, runNo, errorInRun, authFail,
                   notFound, sent, collected, nRowsAtStart, inbox, phase,
                   theatre, commands, replies, config, called, upserts>>

\* the catalog of the CLI specification: one showtime of "Tron: Ares"
CliCatalog ==
    [m \in AmcMovieIds |->
        IF m = 1
        THEN <<[showDateTimeUtc |-> 1, auditorium |-> 1, isSoldOut |-> FALSE]>>
        ELSE <<>>]

InitCli ==
    /\ InitCommon
    /\ showtimes = <<>>
    /\ movies = <<>>
    /\ watchlist = <<>>
    /\ catalog = CliCatalog
    /\ now = 0

\* the catalog answers every request of a check, or none
CliStatuses == {[e \in 1 .. 3 |-> 200], [e \in 1 .. 3 |-> 500]}

NextCli ==
    \/ \E text \in InboundTexts : Receive(text)
    \/ \E found, connected \in BOOLEAN : Initialize(found, connected)
    \/ ExitFailed
    \/ CheckForCommands
    \/ \E replyOk \in BOOLEAN : HandleCommand(replyOk)
    \/ \E st \in CliStatuses : phase = "check" /\ StartRun(st)
    \/ LoopExit
    \/ EntryNoMatch
    \/ EntryMatched
    \/ ProcessMovie(200, [at |-> 0, op |-> "none"])
    \/ Send(0)
    \/ Exit
    \/ ResetDb

SpecCli == InitCli /\ [][NextCli]_vars

(***************************************************************************)
(* The theatres table on its own: any sequence of upsertTheatre calls.     *)
(***************************************************************************)

\* the theatre records a caller can pass: three ids, names and slugs
TheatreRecords ==
    [id : {TheatreId, 2, 3},
     name : {TheatreName, "AMC Kabuki 8", "AMC Van Ness 14"},
     slug : {TheatreSlug, "amc-kabuki-8", "amc-van-ness-14"}]

InitTheatres ==
    /\ InitCommon
    /\ showtimes = <<>>
    /\ movies = <<>>
    /\ watchlist = <<>>
    /\ catalog = [m \in AmcMovieIds |-> <<>>]
    /\ now = 0

\* one call of upsertTheatre; lastUpdated keeps the id of the row its
\* UPDATE wrote
StoreUpsertTheatre(t) ==
    LET r == upsertTheatre(theatres, t)
    IN  /\ theatres' = r.table
        /\ lastUpdated' = IF ~r.threw /\ \E x \in theatres : x.id = t.id
                          THEN t.id ELSE 0
        /\ UNCHANGED <<storeVars, catalog, now, runVars, histVars, botState,
                       inbox, phase, theatre, commands, replies, executed,
                       config, called, upserts>>

NextTheatres == \E t \in TheatreRecords : StoreUpsertTheatre(t)

SpecTheatres == InitTheatres /\ [][NextTheatres]_vars

(***************************************************************************)
(* The resolution of the theatre over several invocations, for the ways    *)
(* the configuration can name it; no message arrives and nothing is        *)
(* watched.                                                                *)
(***************************************************************************)

\* the theatre of the configuration: its full name, a part of the name,
\* its slug
TheatreInputs == {TheatreName, "amc metreon", TheatreSlug}

InitResolve ==
    /\ InitProgram
    /\ config \in {[DefaultConfig EXCEPT !.file["theatre"] = input] :
                      input \in TheatreInputs}
    /\ showtimes = <<>>
    /\ movies = <<>>
    /\ watchlist = <<>>
    /\ catalog = CliCatalog
    /\ now \in 0 .. MaxTime

NextResolve ==
    \/ \E found, connected \in BOOLEAN : Initialize(found, connected)
    \/ ExitFailed
    \/ CheckForCommands
    \/ \E st \in CliStatuses : phase = "check" /\ StartRun(st)
    \/ LoopExit
    \/ Send(0)
    \/ Exit

SpecResolve == InitResolve /\ [][NextResolve]_vars

(***************************************************************************)
(* The title matcher on its own: filterRelevantMovies for every list of    *)
(* catalog movies and every search term.                                   *)
(***************************************************************************)

\* the search terms, the empty one included
MatchTerms ==
    {"Tron: Ares", "tron: ares", "Ares Special", "Minions", "Minionsxyz",
     "Minionwxyz", ""}

\* the lists of movies: every order of every set of them
MovieLists ==
    {l \in SeqsUpTo(MatchIds, Cardinality(MatchIds)) : \A i, j \in DOMAIN l : l[i] = l[j] => i = j}

\* the matcher is given a list and a term
InitMatch ==
    /\ showtimes = <<>>
    /\ movies = <<>>
    /\ watchlist = <<>>
    /\ catalog = [m \in AmcMovieIds |-> <<>>]
    /\ now = 0
    /\ pc = "entry"
    /\ moviesToCheck \in {<<term>> : term \in MatchTerms}
    /\ allMovies \in MovieLists
    /\ idx = 1
    /\ relevant = <<>>
    /\ newNotifications = <<>>
    /\ runNo = 1
    /\ errorInRun = FALSE
    /\ authFail = FALSE
    /\ notFound = FALSE
    /\ sent = <<>>
    /\ collected = <<>>
    /\ nRowsAtStart = 0
    /\ prevClean = FALSE
    /\ batched = {}
    /\ failedBatch = {}
    /\ lastUpdated = 0
    /\ theatres = {AmcTheatre}
    /\ botState = [k \in BotStateKeys |-> NULL]
    /\ inbox = <<>>
    /\ phase = "check"
    /\ theatre = TheatreId
    /\ commands = <<>>
    /\ replies = <<>>
    /\ executed = [i \in 1 .. MaxUpdates |-> 0]
    /\ config = DefaultConfig
    /\ called = {"testConnection"}
    /\ upserts = NoUpserts

NextMatch == EntryNoMatch \/ EntryMatched

SpecMatch == InitMatch /\ [][NextMatch]_vars

(***************************************************************************)
(* The command loop on its own: processTelegramCommands after the poll,    *)
(* for every short batch of commands and every watchlist.                  *)
(***************************************************************************)

\* the commands a poll can return: the five operations, with the arguments
\* an add or a remove can carry, and a command that is none of them
PolledCommands ==
    ([command : {"/add"}, args : {"", " ", "Tron: Ares", "tron: ares"}])
      \cup ([command : {"/remove"}, args : {"", " ", "TRON: ARES"}])
      \cup ([command : {"/list", "/status", "/help", "/start"}, args : {""}])

\* the batches of a poll: the commands numbered in the order of arrival
CommandBatches ==
    {[i \in DOMAIN q |-> [id |-> i, command |-> q[i].command, args |-> q[i].args]] :
        q \in SeqsUpTo(PolledCommands, MaxUpdates) \ {<<>>}}

\* the state after the poll: the commands to handle, the cursor at the last
\* of them
InitHandler ==
    /\ showtimes = <<>>
    /\ movies = <<>>
    /\ watchlist \in {<<>>, <<"Tron: Ares">>}
    /\ catalog = CliCatalog
    /\ now = 0
    /\ pc = "idle"
    /\ moviesToCheck = <<>>
    /\ allMovies = <<>>
    /\ idx = 0
    /\ relevant = <<>>
    /\ newNotifications = <<>>
    /\ runNo = 0
    /\ errorInRun = FALSE
    /\ authFail = FALSE
    /\ notFound = FALSE
    /\ sent = <<>>
    /\ collected = <<>>
    /\ nRowsAtStart = 0
    /\ prevClean = FALSE
    /\ batched = {}
    /\ failedBatch = {}
    /\ lastUpdated = 0
    /\ theatres = {AmcTheatre}
    /\ commands \in CommandBatches
    /\ botState = setBotState([k \in BotStateKeys |-> NULL], "last_update_id",
                              Len(commands))
    /\ inbox = <<>>
    /\ phase = "commands"
    /\ theatre = TheatreId
    /\ replies = <<>>
    /\ executed = [i \in 1 .. MaxUpdates |-> 0]
    /\ config = DefaultConfig
    /\ called = {"testConnection"}
    /\ upserts = NoUpserts

NextHandler == \E replyOk \in BOOLEAN : HandleCommand(replyOk)

SpecHandler == InitHandler /\ [][NextHandler]_vars

\* ------------------------------------------- configuration specification
\* the start of the monitor command on a new store, under any configuration
InitConfig ==
    /\ InitProgram
    /\ config \in Configs
    /\ showtimes = <<>>
    /\ movies = <<>>
    /\ watchlist = <<>>
    /\ catalog = CliCatalog
    /\ now = 0

NextConfig ==
    \/ \E found, connected \in BOOLEAN : Initialize(found, connected)
    \/ ExitFailed

SpecConfig == InitConfig /\ [][NextConfig]_vars

\* =================================================================== claims
\* the local id upsertMovie gave the AMC movie m (0: not stored)
LocalId(ms, m) ==
    IF \E i \in 1 .. Len(ms) : ms[i] = AmcMovieSlug(m)
    THEN CHOOSE i \in 1 .. Len(ms) : ms[i] = AmcMovieSlug(m) ELSE 0

\* the stored rows that carry the natural key k
RowsOfKey(rows, k) == {i \in 1 .. Len(rows) : KeyOf(rows[i]) = k}

\* the messages of a run that list a showtime of natural key k
MessagesOfKey(msgs, k) ==
    {g \in 1 .. Len(msgs) :
        \E l \in 1 .. Len(msgs[g].lines) : msgs[g].lines[l].key = k}

\* C1: across sequential runs every showtime (natural key) is included in at
\* most one notification batch: the batch about to be sent holds no key
\* twice and no key that an earlier batch held.
C1_AtMostOneBatch ==
    pc = "send" =>
        /\ \A i, j \in DOMAIN newNotifications :
              newNotifications[i].key = newNotifications[j].key => i = j
        /\ \A i \in DOMAIN newNotifications :
              newNotifications[i].key \notin batched

\* C2: upserting the same candidate twice returns isNew=true and then
\* isNew=false with the same row id, and the row keeps its firstSeen.
C2_IdempotentUpsert ==
    [][\A c \in Candidates :
          (StoreUpsert(c) /\ upsertShowtime(showtimes, c, now).isNew) =>
              \A t \in now .. MaxTime :
                  LET first == upsertShowtime(showtimes, c, now)
                      second == upsertShowtime(showtimes', c, t)
                  IN  /\ ~second.isNew
                      /\ second.id = first.id
                      /\ second.rows[first.id].firstSeen
                           = showtimes'[first.id].firstSeen]_vars

\* C3: after any sequence of upsertShowtime calls the store holds exactly
\* one row for each natural key (movieId, theatreId, showDateTime,
\* auditorium) that was upserted, a missing auditorium included.
C3_NaturalKeyUnique ==
    \A i, j \in 1 .. Len(showtimes) :
        KeyOf(showtimes[i]) = KeyOf(showtimes[j]) => i = j

\* C4: after a run that completed without error, with catalog and watchlist
\* unchanged since, a run inserts no row, sends no message and leaves
\* firstSeen and notified of every row unchanged.
C4_RepeatedRunIsIdle ==
    [][prevClean =>
        /\ Len(showtimes') = Len(showtimes)
        /\ \A i \in 1 .. Len(showtimes) :
              /\ showtimes'[i].firstSeen = showtimes[i].firstSeen
              /\ showtimes'[i].notified = showtimes[i].notified
        /\ sent' = <<>>]_vars

\* C5: no store operation turns a row's notified flag from true to false
\* or removes the row, and an upsert of an existing row leaves the flag as
\* it was.
C5_NotifiedMonotone ==
    [][/\ \A i \in 1 .. Len(showtimes) :
            /\ i <= Len(showtimes')
            /\ showtimes[i].notified => showtimes'[i].notified
       /\ lastUpdated' # 0 =>
            showtimes'[lastUpdated'].notified
              = showtimes[lastUpdated'].notified]_vars

\* C5 witness: a row already notified has been upserted again, by a
\* candidate that reports it sold out
C5_Witness ==
    /\ lastUpdated # 0
    /\ showtimes[lastUpdated].notified
    /\ showtimes[lastUpdated].isSoldOut

\* C6: the showtimes of a batch whose send failed stay notified=true and are
\* in no notification of a later run.
C6_NoRetryAfterFailedSend ==
    /\ \A k \in failedBatch :
          \A i \in RowsOfKey(showtimes, k) : showtimes[i].notified
    /\ \A i \in DOMAIN newNotifications :
          newNotifications[i].key \notin failedBatch

\* C7: in a run without error every future showtime of a matched title that
\* was not in the store is inserted and marked notified by the call that
\* fetched it, and at the end of the run every row the run inserted is
\* notified and is listed in exactly one sent message.
C7_NewShowtimesNotifiedOnce ==
    [][/\ (pc = "movie" /\ ~errorInRun') =>
            \A k \in 1 .. Len(catalog[Head(relevant)]) :
                LET s == catalog[Head(relevant)][k]
                    key == KeyOf(CandidateOf(LocalId(movies', Head(relevant)),
                                             s))
                IN  (s.showDateTimeUtc > now /\ RowsOfKey(showtimes, key) = {})
                    => \E i \in RowsOfKey(showtimes', key) :
                          /\ i > Len(showtimes)
                          /\ showtimes'[i].notified
       /\ (pc = "send" /\ pc' = "done" /\ ~errorInRun') =>
            \A i \in nRowsAtStart + 1 .. Len(showtimes) :
                /\ showtimes'[i].notified
                /\ Cardinality(MessagesOfKey(sent', KeyOf(showtimes[i]))) = 1
      ]_vars

\* C7 witness: a run without error has stored two new showtimes of one
\* title, both notified, and sent one message with two lines
C7_Witness ==
    /\ pc = "done"
    /\ ~errorInRun
    /\ Len(showtimes) = nRowsAtStart + 2
    /\ \A i \in 1 .. Len(showtimes) : showtimes[i].notified
    /\ Len(sent) = 1
    /\ Len(sent[1].lines) = 2
    /\ sent[1].lines[1].showDateTime < sent[1].lines[2].showDateTime

\* C8: every candidate given to upsertShowtime starts strictly after the
\* time of the fetch, and a step creates or changes no row whose start is
\* at or before that time.
C8_OnlyFutureCandidates ==
    [][/\ pc = "movie" =>
            \A status \in ApiStatuses, fail \in StoreFailures(MaxShows) :
                ProcessMovie(status, fail) =>
                    \A k \in MovieCall(status, fail).cands : k[3] > now
       /\ \A i \in 1 .. Len(showtimes') :
            (i > Len(showtimes) \/ showtimes'[i] # showtimes[i])
                => showtimes'[i].showDateTime > now]_vars

\* C8 witness: the first run, without error, processed a title whose
\* catalog list holds a showtime that had started; no row stands for it,
\* while a row was stored for another showtime of the title
C8_Witness ==
    /\ pc = "done"
    /\ runNo = 1
    /\ ~errorInRun
    /\ \E m \in AmcMovieIds :
          /\ LocalId(movies, m) # 0
          /\ \E k \in 1 .. Len(catalog[m]) :
                /\ catalog[m][k].showDateTimeUtc <= now
                /\ RowsOfKey(showtimes,
                             KeyOf(CandidateOf(LocalId(movies, m),
                                               catalog[m][k]))) = {}
          /\ \E i \in 1 .. Len(showtimes) :
                showtimes[i].movieId = LocalId(movies, m)

C10_EntryFailureIsLocal ==
    [][/\ (pc = "entry" /\ idx <= Len(moviesToCheck)) =>
            /\ pc' \in {"entry", "movie"}
            /\ idx' \in {idx, idx + 1}
            /\ newNotifications' = newNotifications
       /\ pc = "movie" =>
            /\ pc' \in {"entry", "movie"}
            /\ idx' = IF pc' = "entry" THEN idx + 1 ELSE idx
            /\ Len(newNotifications') >= Len(newNotifications)
            /\ SubSeq(newNotifications', 1, Len(newNotifications))
                 = newNotifications
       /\ (pc = "entry" /\ pc' = "send") => idx > Len(moviesToCheck)
       /\ (pc = "send" /\ pc' = "done") =>
            \/ sent' = sendBatchNotification(newNotifications, 0).sent
            \/ Len(sent') < Len(GroupNames(newNotifications))
      ]_vars

\* C10 witness: the loop is over; a zero-match entry came first, the title
\* of a later entry failed (a future showtime of it is in the catalog and
\* the snapshot, but no row stands for it), and the notification of another
\* title is about to be sent
C10_Witness ==
    /\ pc = "send"
    /\ Len(moviesToCheck) = 3
    /\ idx = 4
    /\ allMovies = <<1, 2>>
    /\ newNotifications # <<>>
    /\ \E k \in 1 .. Len(catalog[1]) :
          /\ catalog[1][k].showDateTimeUtc > now
          /\ LocalId(movies, 1) # 0
          /\ RowsOfKey(showtimes,
                       KeyOf(CandidateOf(LocalId(movies, 1), catalog[1][k])))
               = {}

\* C12: a 404 answer to the showtimes request of a title is an empty
\* showtime list: the call raises no error, stores no showtime row, yields
\* no notification, and the run goes on with the next title.
C12_NotFoundIsEmpty ==
    [][pc = "movie" =>
          (ProcessMovie(404, [at |-> 0, op |-> "none"]) =>
              /\ showtimes' = showtimes
              /\ newNotifications' = newNotifications
              /\ errorInRun' = errorInRun
              /\ relevant' = Tail(relevant)
              /\ pc' = IF Tail(relevant) = <<>> THEN "entry" ELSE "movie"
              /\ idx' = IF Tail(relevant) = <<>> THEN idx + 1 ELSE idx)]_vars

\* C12 witness: a showtimes request of the run was answered 404, no error
\* was raised, and the new showtime of a later title is about to be sent
C12_Witness ==
    /\ pc = "send"
    /\ notFound
    /\ ~errorInRun
    /\ newNotifications # <<>>

\* the bijections between the sets A and B
Bijections(A, B) ==
    {f \in [A -> B] :
        /\ \A x, y \in A : f[x] = f[y] => x = y
        /\ \A b \in B : \E x \in A : f[x] = b}

\* C13: when no send fails, sendBatchNotification sends exactly one message
\* per distinct title name of the batch, and the lines of each message are
\* all and only the showtimes of its title.
C13_OneMessagePerTitle ==
    [][(pc = "send" /\ Send(0)) =>
          LET msgs == newNotifications
              names == {msgs[i].movieName : i \in DOMAIN msgs}
          IN  /\ Len(sent') = Cardinality(names)
              /\ \A n \in names :
                    Cardinality({g \in DOMAIN sent' :
                                   sent'[g].movieName = n}) = 1
              /\ \A g \in DOMAIN sent' :
                    LET mine == {i \in DOMAIN msgs :
                                   msgs[i].movieName = sent'[g].movieName}
                        list == sent'[g].showtimeList
                    IN  \E f \in Bijections(DOMAIN list, mine) :
                           \A l \in DOMAIN list :
                              list[l] = ShowtimeLine(msgs[f[l]])]_vars

\* C13 witness: a batch of two titles went out as two messages
C13_Witness ==
    /\ pc = "done"
    /\ ~errorInRun
    /\ Len(collected) = 2
    /\ collected[1].movieName # collected[2].movieName
    /\ Len(sent) = 2

\* C14: in every message sent the showtime lines are in non-decreasing
\* order of local start time, whatever the order of the batch.
C14_LinesByStartTime ==
    \A g \in DOMAIN sent :
        \A i, j \in DOMAIN sent[g].showtimeList :
            i < j => sent[g].showtimeList[i].time <= sent[g].showtimeList[j].time

\* C14 witness: the later showtime was collected first and is listed last
C14_Witness ==
    /\ pc = "done"
    /\ Len(collected) = 2
    /\ collected[1].movieName = collected[2].movieName
    /\ LocalTime(collected[1]) > LocalTime(collected[2])
    /\ Len(sent) = 1
    /\ sent[1].showtimeList[1].time < sent[1].showtimeList[2].time

\* C15: every showtime listed in a message carries its own ticket link: the
\* message holds the ticket URL of each of its showtimes.
C15_EveryShowtimeHasItsLink ==
    \A g \in DOMAIN sent :
        \A l \in DOMAIN sent[g].lines :
            \E k \in DOMAIN sent[g].ticketLinks :
                sent[g].ticketLinks[k] = sent[g].lines[l].ticketUrl

\* the place of the code of an attribute in the priority list (0: none)
PriorityOf(attr) ==
    IF \E f \in DOMAIN premiumFormats : premiumFormats[f] = ToUpperCase(attr.code)
    THEN CHOOSE f \in DOMAIN premiumFormats :
            premiumFormats[f] = ToUpperCase(attr.code)
    ELSE 0

\* the attributes of a message with a code of the priority list
PremiumOf(msg) ==
    {i \in DOMAIN msg.attributes : PriorityOf(msg.attributes[i]) # 0}

\* the attribute of a message whose code is earliest in the priority list
BestOf(msg) ==
    msg.attributes[CHOOSE i \in PremiumOf(msg) :
                      \A j \in PremiumOf(msg) :
                         PriorityOf(msg.attributes[i])
                           <= PriorityOf(msg.attributes[j])]

\* C16 as stated: every line shows the name of the attribute whose code is
\* earliest in the priority list, and the auditorium when no attribute of
\* the record has a code of the list.
C16_PriorityOrAuditorium ==
    \A g \in DOMAIN sent :
        \A l \in DOMAIN sent[g].lines :
            LET msg == sent[g].lines[l]
            IN  sent[g].showtimeList[l].format =
                  IF PremiumOf(msg) # {} THEN BestOf(msg).name
                  ELSE AudText(msg.auditorium)

\* C16 amended: every line shows the name of the attribute whose code is
\* earliest in the priority list, wherever it stands in the record; when no
\* code is of the list, the name of the first attribute of the record whose
\* code contains PREMIUM, LUXURY or 3D or whose name contains Premium; and
\* the auditorium when there is no such attribute or the name is empty.
C16_FormatShown ==
    \A g \in DOMAIN sent :
        \A l \in DOMAIN sent[g].lines :
            LET msg == sent[g].lines[l]
                others == {i \in DOMAIN msg.attributes :
                             IsOtherFormat(msg.attributes[i])}
                name == IF PremiumOf(msg) # {} THEN BestOf(msg).name
                        ELSE IF others # {}
                        THEN msg.attributes[CHOOSE i \in others :
                                               \A j \in others : i <= j].name
                        ELSE ""
            IN  sent[g].showtimeList[l].format =
                  IF name # "" THEN name ELSE AudText(msg.auditorium)

\* C16 witness: the attribute shown stands second in the record, after an
\* attribute whose code comes later in the priority list
C16_Witness ==
    /\ pc = "done"
    /\ Len(sent) = 1
    /\ Len(sent[1].lines) = 1
    /\ LET msg == sent[1].lines[1]
       IN  /\ Len(msg.attributes) = 2
           /\ PriorityOf(msg.attributes[1]) > PriorityOf(msg.attributes[2])
           /\ PriorityOf(msg.attributes[2]) # 0
           /\ sent[1].showtimeList[1].format = msg.attributes[2].name

\* the persisted command cursor (NULL: none)
Cursor == getBotState(botState, "last_update_id")

\* the stored theatre that the configured name finds (NULL: none)
CachedTheatre == getTheatreByName(theatres, envConfigOf(config).theatre)

\* C11 as stated: when neither the store nor the catalog knows the
\* configured theatre, the invocation goes on to its commands and its check.
C11_RunContinues ==
    [][(CachedTheatre = NULL /\ Initialize(FALSE, TRUE))
          => phase' = "poll"]_vars

\* C11 amended: when neither the store nor the catalog knows the configured
\* theatre, initialize throws; the invocation then ends with exit status 1
\* without a poll, a command, a check or a write to the store.
C11_UnresolvedTheatreIsFatal ==
    [][/\ \A connected \in BOOLEAN :
             (CachedTheatre = NULL /\ Initialize(FALSE, connected))
                => phase' = "failed" /\ theatre' = NULL
       /\ phase = "failed"
             => /\ phase' = "off"
                /\ UNCHANGED <<storeVars, theatres, botState, runNo, sent,
                               replies, executed>>]_vars

\* C11 witness: the theatre was not resolved while a message waits
C11_Witness ==
    /\ phase = "failed"
    /\ theatre = NULL
    /\ theatres = {}
    /\ inbox # <<>>

C18_CursorMonotone ==
    [][\/ getBotState(botState', "last_update_id") >= Cursor
       \/ /\ phase = "off"
          /\ showtimes' = <<>>
          /\ watchlist' = <<>>
          /\ theatres' = {}
          /\ getBotState(botState', "last_update_id") = NULL]_vars

\* C18 witness: the second invocation moved the cursor from 1 or 2 to 3
C18_Witness ==
    /\ phase = "check"
    /\ runNo = 1
    /\ Cursor = 3
    /\ executed[1] = 1
    /\ executed[3] = 1
    /\ Len(replies) = 1
    /\ replies[1].id = 3

C20_NoCaseDuplicates ==
    \A i, j \in DOMAIN watchlist :
        Lower(watchlist[i]) = Lower(watchlist[j]) => i = j

C22_BlankArgumentIsUsage ==
    [][(phase = "commands" /\ Head(commands).command \in {"/add", "/remove"}
            /\ Head(commands).args \in {"", " "})
          => /\ watchlist' = watchlist
             /\ replies' \in {replies,
                               Append(replies, [id |-> Head(commands).id,
                                                text |-> "usage"])}]_vars

\* C22 witness: two commands with a blank argument were answered with the
\* usage hint and the watchlist still holds its title
C22_Witness ==
    /\ phase = "check"
    /\ replies = <<[id |-> 1, text |-> "usage"], [id |-> 2, text |-> "usage"]>>
    /\ watchlist = <<"Tron: Ares">>

\* the commands of the batch that were handled and have no reply
Unanswered == {i \in 1 .. Cursor : executed[i] = 1 /\ i > Len(replies)}

MatchResult == IF pc' = "movie" THEN relevant' ELSE <<>>

\* the step applies the matcher to allMovies and moviesToCheck[idx]
MatchStep == pc = "entry" /\ idx <= Len(moviesToCheck) /\ <<pc, idx>>' # <<pc, idx>>

\* C25: the matcher returns exactly the movies of the list that score
\* strictly below the threshold, each once, lowest score first; an empty
\* list or an empty term gives the empty result.
C25_BelowThresholdBestFirst ==
    [][MatchStep
          => LET term == moviesToCheck[idx]
                 r == MatchResult
             IN  /\ {r[i] : i \in DOMAIN r}
                       = {allMovies[i] : i \in {k \in DOMAIN allMovies :
                             FuseScore(term, allMovies[k]) < ScoreThreshold}}
                 /\ \A i, j \in DOMAIN r :
                       /\ r[i] = r[j] => i = j
                       /\ i < j => FuseScore(term, r[i]) <= FuseScore(term, r[j])
                 /\ (allMovies = <<>> \/ term = "") => r = <<>>]_vars

\* C25 witness: the term "Ares Special" on the list Tron: Ares, Tron: Ares
\* Special Edition, Minions gave the one movie below the threshold
C25_Witness ==
    /\ pc = "movie"
    /\ allMovies = <<1, 2, 3>>
    /\ moviesToCheck = <<"Ares Special">>
    /\ relevant = <<2>>

NewRowsOfKey(k) == {j \in RowsOfKey(showtimes, k) : j > nRowsAtStart}

\* C27: when the run comes to send, and after it has sent, every showtime
\* of the batch has its new row in the store, marked notified: no send of a
\* showtime precedes its mark.
C27_MarkedBeforeSend ==
    \A i \in DOMAIN (IF pc = "send" THEN newNotifications ELSE collected) :
        LET n == (IF pc = "send" THEN newNotifications ELSE collected)[i]
        IN  /\ pc \in {"send", "done"}
            /\ NewRowsOfKey(n.key) # {}
            /\ \A j \in NewRowsOfKey(n.key) : showtimes[j].notified

\* C27 witness: a run is about to send a batch of two showtimes, both
\* already marked
C27_Witness ==
    /\ pc = "send"
    /\ Len(newNotifications) = 2
    /\ sent = <<>>
    /\ Len(showtimes) = nRowsAtStart + 2
    /\ \A j \in 1 .. Len(showtimes) : showtimes[j].notified

\* C28: when a run is over, every row it inserted and marked notified is
\* a showtime of the batch it gave to sendBatchNotification.
C28_MarkedIsBatched ==
    pc = "done"
      => \A j \in 1 .. Len(showtimes) :
            (j > nRowsAtStart /\ showtimes[j].notified)
              => \E i \in DOMAIN collected :
                    collected[i].key = KeyOf(showtimes[j])

\* C29: a send that fails ends sendBatchNotification: the messages sent
\* are those of the title groups before the failing one, none is sent for
\* the groups after it, and checkForNewShowtimes finishes normally.
C29_StopsAtFirstFailure ==
    [][(pc = "send" /\ pc' # "send")
          => LET names == GroupNames(newNotifications)
             IN  /\ pc' = "done"
                 /\ ~errorInRun'
                       => [g \in DOMAIN sent' |-> sent'[g].movieName] = names
                 /\ errorInRun'
                       => \E f \in DOMAIN names :
                             /\ failedBatch' =
                                   {newNotifications[i].key : i \in
                                      {j \in DOMAIN newNotifications :
                                         newNotifications[j].movieName = names[f]}}
                             /\ [g \in DOMAIN sent' |-> sent'[g].movieName]
                                   = SubSeq(names, 1, f - 1)]_vars

\* C29 witness: the batch held two titles, the first send failed, nothing
\* was sent and the check is over
C29_Witness ==
    /\ pc = "done"
    /\ errorInRun
    /\ Len(GroupNames(collected)) = 2
    /\ sent = <<>>
    /\ failedBatch # {}

\* C30: a stored row that is not marked notified is found by its natural
\* key: an upsert of its showtime is never new, so no later run builds a
\* notification for it.
C30_UnnotifiedRowIsFound ==
    \A i \in 1 .. Len(showtimes) :
        ~showtimes[i].notified
          => \A c \in Candidates :
                KeyOf(c) = KeyOf(showtimes[i])
                  => ~upsertShowtime(showtimes, c, now).isNew

\* C36 as stated: an upsert of a theatre whose slug is stored succeeds and
\* leaves one row with that slug, whatever id and name the record carries.
C36_UpsertKeyedOnSlug ==
    \A t \in TheatreRecords :
        (\E r \in theatres : r.slug = t.slug)
          => LET u == upsertTheatre(theatres, t)
             IN  /\ ~u.threw
                 /\ t \in u.table
                 /\ Cardinality({r \in u.table : r.slug = t.slug}) = 1

\* C36 amended: the upsert is keyed on the id.  When no other row holds
\* the record's name or slug, the record replaces the row of its id, or is
\* added when the id is new, and the other rows stay; otherwise the upsert
\* fails and the table is unchanged.  No two rows share an id, a name or a
\* slug.
C36_UpsertKeyedOnId ==
    /\ \A r1, r2 \in theatres :
          (r1.id = r2.id \/ r1.name = r2.name \/ r1.slug = r2.slug) => r1 = r2
    /\ \A t \in TheatreRecords :
          LET u == upsertTheatre(theatres, t)
              others == {r \in theatres : r.id # t.id}
          IN  IF \E r \in others : r.name = t.name \/ r.slug = t.slug
              THEN u.threw /\ u.table = theatres
              ELSE ~u.threw /\ u.table = others \cup {t}

\* C36 witness: the row of theatre 1 was updated to another name and slug
\* while another theatre is stored
C36_Witness ==
    /\ lastUpdated = TheatreId
    /\ Cardinality(theatres) = 2
    /\ \E r \in theatres :
          r.id = TheatreId /\ r.name # TheatreName /\ r.slug # TheatreSlug

\* C37: an invocation that finds a theatre in the store makes no theatre
\* query to the catalog, whether the configuration names the theatre by its
\* name or by its slug.
C37_ResolvedFromStore ==
    [][(phase = "off" /\ phase' # "off" /\ theatres # {})
          => "findTheatreByName" \notin called']_vars

\* C33 as stated: commands are handled after the check of the invocation.
C33_CheckBeforeCommands ==
    [][(phase = "commands" /\ executed' # executed) => pc = "done"]_vars

\* C33 amended: the commands of an invocation are polled and handled before
\* its check starts, none is handled during or after the check, and the
\* check reads the watchlist as the commands left it.
C33_CommandsBeforeCheck ==
    [][/\ (pc = "idle" /\ pc' = "entry")
             => /\ phase = "check"
                /\ "checkForCommands" \in called
                /\ commands = <<>>
                /\ moviesToCheck' = watchlist
       /\ pc # "idle"
             => commands = <<>> /\ UNCHANGED <<commands, executed, watchlist>>
       /\ executed' # executed => pc = "idle" /\ pc' = "idle"]_vars

\* C33 witness: the first invocation handled "/add Tron: Ares" and its
\* check has recorded a showtime of the title
C33_Witness ==
    /\ runNo = 1
    /\ pc = "done"
    /\ inbox = <<"/add Tron: Ares">>
    /\ replies = <<[id |-> 1, text |-> "added"]>>
    /\ moviesToCheck = <<"Tron: Ares">>
    /\ Len(showtimes) = 1

\* C39: when the connection test of initialize fails, the invocation
\* fails: it ends without a poll, a command, a check or a write to a
\* showtime row.
C39_NoCheckWithoutConnection ==
    [][/\ \A found \in BOOLEAN :
             ((CachedTheatre # NULL \/ found) /\ Initialize(found, FALSE))
                => phase' = "failed"
       /\ (phase = "failed" /\ "testConnection" \in called)
             => /\ phase' = "off"
                /\ UNCHANGED <<storeVars, botState, runNo, pc, sent, replies,
                               executed, commands>>]_vars

\* C39 witness: the connection test failed while a command waits and the
\* watchlist holds a title
C39_Witness ==
    /\ phase = "failed"
    /\ called = {"testConnection"}
    /\ theatre = TheatreId
    /\ watchlist # <<>>
    /\ Len(inbox) > Cursor
    /\ IsCommand(inbox[Len(inbox)])

\* C40: a reply that fails while a command is handled ends the command
\* loop, not the invocation: the commands left are dropped and the
\* invocation goes on to its check.
C40_CommandErrorIsCaught ==
    [][(phase = "commands" /\ HandleCommand(FALSE))
          => /\ phase' = "check"
             /\ commands' = <<>>
             /\ pc' = "idle"]_vars

\* C40 witness: the reply to the first of two commands failed, the second
\* was dropped, and the check of the same invocation recorded a showtime
C40_Witness ==
    /\ runNo = 1
    /\ pc = "done"
    /\ inbox = <<"/add Tron: Ares", "/list">>
    /\ replies = <<>>
    /\ executed[1] = 1
    /\ executed[2] = 0
    /\ Len(showtimes) = 1

\* C32: in one run no showtime is new twice: the rows the run inserted
\* carry different natural keys and the batch holds one notification for
\* each, also when two watchlist entries match one title or the catalog
\* lists a showtime twice.
C32_NewOncePerRun ==
    pc \in {"send", "done"}
      => LET batch == IF pc = "send" THEN newNotifications ELSE collected
         IN  /\ \A i, j \in DOMAIN batch :
                   batch[i].key = batch[j].key => i = j
             /\ \A i, j \in 1 .. Len(showtimes) :
                   (i > nRowsAtStart /\ j > nRowsAtStart
                      /\ KeyOf(showtimes[i]) = KeyOf(showtimes[j])) => i = j

\* C34: processMovieShowtimes for a title whose slug is stored keeps the
\* local id of the title and the id, natural key, firstSeen and notified of
\* every stored showtime row, and inserts no row under a natural key that
\* is already stored.
C34_RefetchKeepsRows ==
    [][(pc = "movie" /\ LocalId(movies, Head(relevant)) # 0
            /\ <<showtimes, movies, pc, relevant>>' # <<showtimes, movies, pc, relevant>>)
          => /\ LocalId(movies', Head(relevant)) = LocalId(movies, Head(relevant))
             /\ Len(movies') = Len(movies)
             /\ \A i \in 1 .. Len(showtimes) :
                   /\ showtimes'[i].id = showtimes[i].id
                   /\ KeyOf(showtimes'[i]) = KeyOf(showtimes[i])
                   /\ showtimes'[i].firstSeen = showtimes[i].firstSeen
                   /\ showtimes'[i].notified = showtimes[i].notified
             /\ \A j \in 1 .. Len(showtimes') :
                   j > Len(showtimes)
                     => \A i \in 1 .. Len(showtimes) :
                           KeyOf(showtimes'[j]) # KeyOf(showtimes[i])]_vars

\* C35: upsertShowtime of a candidate whose natural key is stored is an
\* update: it is not new, adds no row, writes the candidate's mutable
\* values into the row of that key and leaves the rest of the row, id,
\* natural key, firstSeen and notified included, as it was.
C35_UpdateRefreshesRow ==
    \A c \in Candidates :
        (\E i \in 1 .. Len(showtimes) : KeyOf(showtimes[i]) = KeyOf(c))
          => LET r == upsertShowtime(showtimes, c, now)
             IN  /\ ~r.isNew
                 /\ Len(r.rows) = Len(showtimes)
                 /\ KeyOf(showtimes[r.id]) = KeyOf(c)
                 /\ r.rows = [showtimes EXCEPT ![r.id] =
                                [@ EXCEPT !.isSoldOut = c.isSoldOut]]

\* C38: the catalog snapshot is fetched once per run, when the run starts
\* and before the first watchlist entry (idx = 1) is looked at; no later step
\* of the run changes it, whatever the length of the watchlist, and every
\* entry is matched against that snapshot
C38_SnapshotOncePerRun ==
    [][/\ (pc = "idle" /\ pc' # "idle")
          => /\ pc' = "entry"
             /\ idx' = 1
             /\ moviesToCheck' = watchlist
             /\ \E st \in [1 .. 3 -> ApiStatuses] : allMovies' = getAllMovies(st)
       /\ (pc # "idle" /\ pc' # "idle") => allMovies' = allMovies
       /\ (pc = "entry" /\ pc' = "movie")
          => relevant' = filterRelevantMovies(allMovies, moviesToCheck[idx])]_vars

\* a run over two watchlist entries whose snapshot misses a view: both
\* entries were handled and the snapshot still holds one title only
C38_Witness ==
    /\ pc = "send"
    /\ Len(moviesToCheck) >= 2
    /\ idx > Len(moviesToCheck)
    /\ Len(allMovies) = 1
    /\ showtimes # <<>>

\* C31: when two overlapping invocations have both upserted the same new
\* showtime, the store holds a single row for that natural key and at most
\* one of the two calls returned isNew = true
C31_OverlapSingleRow ==
    \A p, q \in Procs :
        (/\ p # q
         /\ upserts[p].stage \in {"returned", "threw"}
         /\ upserts[q].stage \in {"returned", "threw"}
         /\ KeyOf(upserts[p].c) = KeyOf(upserts[q].c))
        => /\ Cardinality({i \in 1 .. Len(showtimes) :
                              KeyOf(showtimes[i]) = KeyOf(upserts[p].c)}) = 1
           /\ ~(upserts[p].isNew /\ upserts[q].isNew)

\* a required field that neither the environment nor the file gives
FieldAbsent(f) ==
    /\ config.env[f] \in {Missing, ""}
    /\ ~config.exists \/ config.file[f] \in {Missing, ""}

\* C24: when a required configuration field is missing or empty, the
\* invocation fails while loading the configuration: it makes no call to the
\* catalog or to the messaging channel and writes nothing.
C24_ConfigErrorBeforeAnyCall ==
    [][(phase = "off" /\ phase' # "off" /\ \E f \in ConfigFields : FieldAbsent(f))
          => /\ phase' = "failed"
             /\ called' = {}
             /\ UNCHANGED <<storeVars, theatres, botState, theatre, sent,
                            replies>>]_vars

\* C24 witness: the file gives an empty theatre name and the invocation
\* failed without a call
C24_Witness ==
    /\ phase = "failed"
    /\ called = {}
    /\ config.exists
    /\ config.file["theatre"] = ""
    /\ config.env["theatre"] = Missing
    /\ \A f \in ConfigFields \ {"theatre"} : config.file[f] = "x"

====
